---- MODULE Spec2Model ----
(***************************************************************************)
(* Model of notebooks/nb03_modeling-part2.ipynb: the tokenize() text       *)
(* normalizer and the display_topics() report.                             *)
(*                                                                         *)
(* Strings are sequences of one-character strings, so that re.sub,         *)
(* str.lower, str.strip, ' '.join and the word tokenizer act on            *)
(* characters as they do in Python.                                        *)
(***************************************************************************)
EXTENDS Integers, Sequences, FiniteSets, TLC

VARIABLES
    text,            \* tokenize: the argument (a str, or None)
    words_corpus,    \* nltk.corpus.words.words(), as loaded
    wordnet,         \* the noun forms known to WordNet (the lemmatizer's data)
    pc,              \* tokenize: position in the function body
    cleaned,         \* tokenize: text after re.sub
    words,           \* tokenize: tokens after word_tokenize
    tokens,          \* tokenize: tokens after the vocabulary filter
    tokens_lem,      \* tokenize: the returned list
    rejoined,        \* ' '.join(tokens_lem) of a second pass
    tokens_again,    \* tokenize(' '.join(tokens_lem))
    model,           \* the module-level pipeline's components_ (topics x terms)
    model_pipeline,  \* display_topics argument: components_ of the pipeline passed
    vocab,           \* display_topics argument
    number_of_top_words, \* display_topics argument
    topic,           \* display_topics: loop index (0-based)
    topic_words,     \* display_topics: the dict, as a sequence indexed by topic+1
    out,             \* lines printed so far
    dpc              \* display_topics: position in the function body

tokvars == <<text, words_corpus, wordnet, pc, cleaned, words, tokens,
             tokens_lem, rejoined, tokens_again>>
topvars == <<model, model_pipeline, vocab, number_of_top_words, topic,
             topic_words, out, dpc>>
vars == <<tokvars, topvars>>

----------------------------------------------------------------------------
(* Bounds *)

MaxPieces == 4      \* an input text is a concatenation of at most this many pieces
MaxTopics == 2      \* topics of a fitted model
MaxTerms == 3       \* columns of components_
MaxWeight == 1      \* topic-term weights range over 0..MaxWeight
MaxTopWords == 3    \* number_of_top_words ranges over -1..MaxTopWords

----------------------------------------------------------------------------
(* Characters *)

LowerLetters == {"a", "s", "u", "l", "h", "i", "d", "e", "p"}
UpperLetters == {"U"}
Digits       == {"1"}
Whitespace   == {" "}
Punctuation  == {"!"}

\* the character class [0-9a-zA-Z] of the regular expression
AlNum == LowerLetters \cup UpperLetters \cup Digits

\* str.lower() on one character
LowerChar(c) == IF c = "U" THEN "u" ELSE c

\* str.lower()
Lower(w) == [i \in DOMAIN w |-> LowerChar(w[i])]

RECURSIVE LStrip(_)
LStrip(w) == IF w # <<>> /\ Head(w) \in Whitespace THEN LStrip(Tail(w)) ELSE w

RECURSIVE RStrip(_)
RStrip(w) ==
    IF w # <<>> /\ w[Len(w)] \in Whitespace
    THEN RStrip(SubSeq(w, 1, Len(w) - 1))
    ELSE w

\* str.strip()
Strip(w) == RStrip(LStrip(w))

\* ' '.join(list)
RECURSIVE Join(_)
Join(ws) ==
    IF ws = <<>> THEN <<>>
    ELSE IF Len(ws) = 1 THEN ws[1]
    ELSE ws[1] \o <<" ">> \o Join(Tail(ws))

----------------------------------------------------------------------------
(* Reference data *)

\* stopwords.words('english'): the entries spelled with the model's letters
StopwordsEnglish ==
    { <<"a">>, <<"s">>, <<"d">>, <<"i">>, <<"a", "s">>, <<"i", "s">>,
      <<"a", "l", "l">>, <<"h", "i", "s">> }

\* the list passed to STOP_WORDS_ENG.extend
StopwordsExtension ==
    { <<"l", "a">>, <<"d", "e">>, <<"l", "e">>, <<"p", "a">>,
      <<"d", "e", "l">>, <<"e", "l">> }

STOP_WORDS_ENG == StopwordsEnglish \cup StopwordsExtension

\* list(w.lower() for w in nltk.corpus.words.words())
ENGLISH_VOCABULARY == { Lower(w) : w \in words_corpus }

\* the word lists a run may have loaded (entries may be capitalised)
Corpora ==
    { { <<"u", "s">>, <<"u">>, <<"a", "s", "s">>, <<"a", "s">>, <<"a">>,
        <<"l", "a", "s">>, <<"l", "a">>, <<"h", "i", "s">>, <<"h", "i">> },
      { <<"U", "s">>, <<"u", "s", "s">>, <<"s">>, <<"l", "a", "s">> },
      { <<"a">> } }

\* the noun inventories the lemmatizer may have loaded
WordNets ==
    { {},
      { <<"u">>, <<"u", "s">>, <<"a">>, <<"a", "s">>, <<"a", "s", "s">>,
        <<"l", "a">>, <<"h", "i">>, <<"i">> },
      { <<"u", "s">>, <<"a", "s", "s">>, <<"l", "a", "s">> } }

----------------------------------------------------------------------------
(* tokenize: the pure steps *)

\* re.sub(r'[^0-9a-zA-Z]', ' ', text)
Clean(s) == [i \in DOMAIN s |-> IF s[i] \in AlNum THEN s[i] ELSE " "]

\* word_tokenize(text) on text made of letters, digits and blanks: the
\* Treebank tokenizer finds no punctuation to detach and splits at blanks
\* (none of its contraction patterns, such as "cannot" or "gonna", can be
\* spelled with the model's letters)
RECURSIVE SplitBlank(_, _)
SplitBlank(s, cur) ==
    IF s = <<>> THEN (IF cur = <<>> THEN <<>> ELSE <<cur>>)
    ELSE IF Head(s) \in Whitespace
         THEN (IF cur = <<>> THEN <<>> ELSE <<cur>>) \o SplitBlank(Tail(s), <<>>)
         ELSE SplitBlank(Tail(s), Append(cur, Head(s)))

word_tokenize(s) == SplitBlank(s, <<>>)

\* the length test off by one: len(word) > 2
InVocabulary_LongerThanTwo(word) == word \in ENGLISH_VOCABULARY /\ Len(word) > 2

\* [word for word in tokens if word in ENGLISH_VOCABULARY and len(word) > 1]
InVocabulary(word) == word \in ENGLISH_VOCABULARY /\ Len(word) > 1

VocabularyFilter(ws) == SelectSeq(ws, InVocabulary)

\* WordNet's noun detachment rules, of which only ("s", "") applies to
\* words spelled with the model's letters: one round of apply_rules on a form
Detach(form) ==
    IF form # <<>> /\ form[Len(form)] = "s"
    THEN { SubSeq(form, 1, Len(form) - 1) }
    ELSE {}

\* the while loop of WordNetCorpusReader._morphy: keep detaching until a
\* known form appears or no rule applies
RECURSIVE MorphyLoop(_)
MorphyLoop(forms) ==
    IF forms = {} THEN {}
    ELSE LET next    == UNION { Detach(f) : f \in forms }
             results == next \cap wordnet
         IN IF results # {} THEN results ELSE MorphyLoop(next)

\* wn._morphy(word, "n")
Morphy(word) ==
    LET forms   == Detach(word)
        results == ({word} \cup forms) \cap wordnet
    IN IF results # {} THEN results ELSE MorphyLoop(forms)

\* WordNetLemmatizer().lemmatize(word):
\*   min(lemmas, key=len) if lemmas else word
lemmatize(word) ==
    LET lemmas == Morphy(word)
    IN IF lemmas = {} THEN word
       ELSE CHOOSE l \in lemmas : \A m \in lemmas : Len(l) <= Len(m)

\* [lemmatizer.lemmatize(token.strip().lower()) for token in tokens
\*  if token not in STOP_WORDS_ENG]
NotStopWord(token) == token \notin STOP_WORDS_ENG

RECURSIVE MapLemmatize(_)
MapLemmatize(ts) ==
    IF ts = <<>> THEN <<>>
    ELSE <<lemmatize(Lower(Strip(Head(ts))))>> \o MapLemmatize(Tail(ts))

\* the stop-word test moved after lemmatization, onto the lemmas
Lemmatization_StopWordsLast(ts) == SelectSeq(MapLemmatize(ts), NotStopWord)

Lemmatization(ts) == MapLemmatize(SelectSeq(ts, NotStopWord))

\* tokenize(text) for a str argument
tokenize(s) == Lemmatization(VocabularyFilter(word_tokenize(Clean(s))))

----------------------------------------------------------------------------
(* Inputs *)

Pieces ==
    { <<"u", "s">>, <<"U", "s">>, <<"a", "s", "s">>, <<"l", "a", "s">>,
      <<"h", "i", "s">>, <<"s">>, <<"1">>, <<" ">>, <<"!">> }

RECURSIVE Concat(_)
Concat(ps) == IF ps = <<>> THEN <<>> ELSE Head(ps) \o Concat(Tail(ps))

Texts == { Concat(ps) : ps \in UNION { [1..n -> Pieces] : n \in 0..MaxPieces } }

Str(s) == [isNone |-> FALSE, val |-> s]
None   == [isNone |-> TRUE, val |-> <<>>]

----------------------------------------------------------------------------
(* tokenize: the function body, one statement per step *)

TopicsIdle ==
    /\ model = <<>>
    /\ model_pipeline = <<>>
    /\ vocab = <<>>
    /\ number_of_top_words = 0
    /\ topic = 0
    /\ topic_words = <<>>
    /\ out = <<>>
    /\ dpc = "idle"

Init ==
    /\ text \in { Str(s) : s \in Texts } \cup { None }
    /\ words_corpus \in Corpora
    /\ wordnet \in WordNets
    /\ pc = "start"
    /\ cleaned = <<>>
    /\ words = <<>>
    /\ tokens = <<>>
    /\ tokens_lem = <<>>
    /\ rejoined = <<>>
    /\ tokens_again = <<>>
    /\ TopicsIdle

\* re.sub on a str
Substitute ==
    /\ pc = "start"
    /\ ~text.isNone
    /\ cleaned' = Clean(text.val)
    /\ pc' = "cleaned"
    /\ UNCHANGED <<text, words_corpus, wordnet, words, tokens, tokens_lem,
                   rejoined, tokens_again, topvars>>

\* re.sub on None raises TypeError (expected string or bytes-like object)
SubstituteRaises ==
    /\ pc = "start"
    /\ text.isNone
    /\ pc' = "error"
    /\ UNCHANGED <<text, words_corpus, wordnet, cleaned, words, tokens,
                   tokens_lem, rejoined, tokens_again, topvars>>

WordTokenize ==
    /\ pc = "cleaned"
    /\ words' = word_tokenize(cleaned)
    /\ pc' = "split"
    /\ UNCHANGED <<text, words_corpus, wordnet, cleaned, tokens, tokens_lem,
                   rejoined, tokens_again, topvars>>

FilterVocabulary ==
    /\ pc = "split"
    /\ tokens' = VocabularyFilter(words)
    /\ pc' = "filtered"
    /\ UNCHANGED <<text, words_corpus, wordnet, cleaned, words, tokens_lem,
                   rejoined, tokens_again, topvars>>

\* the lemmatization comprehension and the return
Lemmatize ==
    /\ pc = "filtered"
    /\ tokens_lem' = Lemmatization(tokens)
    /\ pc' = "done"
    /\ UNCHANGED <<text, words_corpus, wordnet, cleaned, words, tokens,
                   rejoined, tokens_again, topvars>>

\* a second pass over the joined result: tokenize(' '.join(tokens_lem))
Renormalize ==
    /\ pc = "done"
    /\ rejoined' = Join(tokens_lem)
    /\ tokens_again' = tokenize(Join(tokens_lem))
    /\ pc' = "renormalized"
    /\ UNCHANGED <<text, words_corpus, wordnet, cleaned, words, tokens,
                   tokens_lem, topvars>>

Next ==
    \/ Substitute
    \/ SubstituteRaises
    \/ WordTokenize
    \/ FilterVocabulary
    \/ Lemmatize
    \/ Renormalize

Spec == Init /\ [][Next]_vars

----------------------------------------------------------------------------
(* display_topics: data *)

Weights == 0..MaxWeight

\* components_ of a fitted LatentDirichletAllocation: one row of term
\* weights per topic.  The first topic's row is arbitrary; the row of each
\* later topic is the first one shifted column by column, so that the
\* topics of one model rank the terms differently
Fitted(k, row) ==
    [t \in 1..k |-> [i \in DOMAIN row |-> (row[i] + (t - 1) * i) % (MaxWeight + 1)]]

Components ==
    { Fitted(k, row) :
        k \in 1..MaxTopics, row \in UNION { [1..v -> Weights] : v \in 1..MaxTerms } }

Term(i) == <<"t", i>>

\* entries of a vocab list that are not strings
NotAString == { <<"None">> }

IsStr(entry) == entry \notin NotAString

\* get_feature_names() of a vectorizer fitted on v terms
FeatureNames(v) == [i \in 1..v |-> Term(i)]

\* the vocab lists a caller may pass for a model of v terms: the fitted
\* one, one that is a term short, and the fitted one with a non-string
\* entry in the first or the last place
Vocabs(v) ==
    { FeatureNames(v), FeatureNames(v - 1) }
    \cup { [FeatureNames(v) EXCEPT ![p] = <<"None">>] : p \in {1, v} }

\* another fitted pipeline than m: the weights of each topic turned
\* upside down, and one topic more
OtherPipeline(m) ==
    LET flipped == [t \in DOMAIN m |-> [i \in DOMAIN m[t] |-> MaxWeight - m[t][i]]]
    IN Append(flipped, flipped[1])

----------------------------------------------------------------------------
(* display_topics: the pure steps *)

\* np.argsort(component): the 0-based indices in an order that sorts the
\* weights ascending; the order of equal weights is left to the sort
Argsorts(component) ==
    LET n == Len(component)
    IN { p \in [1..n -> 0..(n - 1)] :
            /\ \A i, j \in 1..n : i # j => p[i] # p[j]
            /\ \A i \in 1..(n - 1) : component[p[i] + 1] <= component[p[i + 1] + 1] }

\* the reversal left out: the ascending order of argsort is kept
Reversed_LeftOut(seq) == seq

\* seq[::-1]
Reversed(seq) == [i \in DOMAIN seq |-> seq[Len(seq) + 1 - i]]

\* the slice one short: seq[:n - 1]
SliceTo_OneShort(seq, n) ==
    LET m    == n - 1
        stop == IF m >= 0
                THEN (IF m < Len(seq) THEN m ELSE Len(seq))
                ELSE (IF Len(seq) + m > 0 THEN Len(seq) + m ELSE 0)
    IN SubSeq(seq, 1, stop)

\* seq[:n], for any integer n
SliceTo(seq, n) ==
    LET stop == IF n >= 0
                THEN (IF n < Len(seq) THEN n ELSE Len(seq))
                ELSE (IF Len(seq) + n > 0 THEN Len(seq) + n ELSE 0)
    IN SubSeq(seq, 1, stop)

\* np.argsort(component)[::-1][:number_of_top_words]
WordIdx(ranked, n) == SliceTo(Reversed(ranked), n)

\* the components_ the loop iterates over: those of the module-level name
\* `model` (the parameter model_pipeline is not read)
LoopComponents == model

----------------------------------------------------------------------------
(* display_topics: the function body *)

TokenizeIdle ==
    /\ text = None
    /\ words_corpus = {}
    /\ wordnet = {}
    /\ pc = "idle"
    /\ cleaned = <<>>
    /\ words = <<>>
    /\ tokens = <<>>
    /\ tokens_lem = <<>>
    /\ rejoined = <<>>
    /\ tokens_again = <<>>

InitTopics ==
    /\ TokenizeIdle
    /\ model \in Components
    /\ model_pipeline \in { model, OtherPipeline(model) }
    /\ vocab \in Vocabs(Len(model[1]))
    /\ number_of_top_words \in (-1)..MaxTopWords
    /\ topic = 0
    /\ topic_words = <<>>
    /\ out = <<>>
    /\ dpc = "start"

\* topic_words = {}
Enter ==
    /\ dpc = "start"
    /\ topic_words' = <<>>
    /\ topic' = 0
    /\ dpc' = "rank"
    /\ UNCHANGED <<model, model_pipeline, vocab, number_of_top_words, out, tokvars>>

\* one iteration of the first loop
RankTopic ==
    /\ dpc = "rank"
    /\ topic < Len(LoopComponents)
    /\ \E ranked \in Argsorts(LoopComponents[topic + 1]) :
          LET word_idx == WordIdx(ranked, number_of_top_words)
          IN /\ \A j \in DOMAIN word_idx : word_idx[j] + 1 <= Len(vocab)
             /\ topic_words' =
                   Append(topic_words, [j \in DOMAIN word_idx |-> vocab[word_idx[j] + 1]])
    /\ topic' = topic + 1
    /\ UNCHANGED <<model, model_pipeline, vocab, number_of_top_words, out, dpc, tokvars>>

\* vocab[i] with i beyond the list raises IndexError
RankTopicRaises ==
    /\ dpc = "rank"
    /\ topic < Len(LoopComponents)
    /\ \E ranked \in Argsorts(LoopComponents[topic + 1]) :
          LET word_idx == WordIdx(ranked, number_of_top_words)
          IN \E j \in DOMAIN word_idx : word_idx[j] + 1 > Len(vocab)
    /\ dpc' = "error"
    /\ UNCHANGED <<model, model_pipeline, vocab, number_of_top_words, topic,
                   topic_words, out, tokvars>>

\* the first loop is exhausted; the second starts
StartReport ==
    /\ dpc = "rank"
    /\ topic = Len(LoopComponents)
    /\ topic' = 0
    /\ dpc' = "print_topic"
    /\ UNCHANGED <<model, model_pipeline, vocab, number_of_top_words,
                   topic_words, out, tokvars>>

\* print(f'Topic: {topic + 1}')
PrintTopic ==
    /\ dpc = "print_topic"
    /\ topic < Len(topic_words)
    /\ out' = Append(out, [line |-> "Topic", topic |-> topic + 1, words |-> <<>>])
    /\ dpc' = "print_words"
    /\ UNCHANGED <<model, model_pipeline, vocab, number_of_top_words, topic,
                   topic_words, tokvars>>

\* print(f'Words:  {", ".join(words)}')
PrintWords ==
    /\ dpc = "print_words"
    /\ \A j \in DOMAIN topic_words[topic + 1] : IsStr(topic_words[topic + 1][j])
    /\ out' = Append(out, [line |-> "Words", topic |-> topic + 1,
                           words |-> topic_words[topic + 1]])
    /\ topic' = topic + 1
    /\ dpc' = "print_topic"
    /\ UNCHANGED <<model, model_pipeline, vocab, number_of_top_words,
                   topic_words, tokvars>>

\* ", ".join(words) raises TypeError on an entry that is not a str
PrintWordsRaises ==
    /\ dpc = "print_words"
    /\ \E j \in DOMAIN topic_words[topic + 1] : ~IsStr(topic_words[topic + 1][j])
    /\ dpc' = "error"
    /\ UNCHANGED <<model, model_pipeline, vocab, number_of_top_words, topic,
                   topic_words, out, tokvars>>

\* the second loop is exhausted; the function returns
Return ==
    /\ dpc = "print_topic"
    /\ topic = Len(topic_words)
    /\ dpc' = "done"
    /\ UNCHANGED <<model, model_pipeline, vocab, number_of_top_words, topic,
                   topic_words, out, tokvars>>

NextTopics ==
    \/ Enter
    \/ RankTopic
    \/ RankTopicRaises
    \/ StartReport
    \/ PrintTopic
    \/ PrintWords
    \/ PrintWordsRaises
    \/ Return

SpecTopics == InitTopics /\ [][NextTopics]_vars

----------------------------------------------------------------------------
(* Properties of tokenize *)

Returned == pc \in {"done", "renormalized"}

\* the lemma the comprehension computes for a filtered token
LemmaOf(token) == lemmatize(Lower(Strip(token)))

\* C1: every token tokenize returns has length > 1, is lower-case, is made
\* of ASCII letters and digits only, is in the reference vocabulary and is
\* not in the stop-word set
C1_EmittedTokensNormalized ==
    Returned =>
        \A j \in DOMAIN tokens_lem :
            LET t == tokens_lem[j]
            IN /\ Len(t) > 1
               /\ Lower(t) = t
               /\ \A i \in DOMAIN t : t[i] \in AlNum
               /\ t \in ENGLISH_VOCABULARY
               /\ t \notin STOP_WORDS_ENG

\* C2: the vocabulary filter keeps a word exactly when its lower-cased form
\* is in the vocabulary and it is longer than one character
CaseInsensitivelyInVocabulary(word) ==
    Lower(word) \in ENGLISH_VOCABULARY /\ Len(word) > 1

C2_FilterCaseInsensitive ==
    pc \in {"filtered", "done", "renormalized"} =>
        tokens = SelectSeq(words, CaseInsensitivelyInVocabulary)

Kept(i) == Cardinality({ k \in 1..i : tokens[k] \notin STOP_WORDS_ENG })

C4_EmptyOrNoneYieldsEmpty ==
    (text.isNone \/ text.val = <<>>) =>
        /\ pc # "error"
        /\ Returned => tokens_lem = <<>>

\* C5 as stated: when every returned token is in the vocabulary and is no
\* stop word, tokenizing the joined result returns the same list
C5_Idempotent ==
    (/\ pc = "renormalized"
     /\ \A j \in DOMAIN tokens_lem :
           /\ tokens_lem[j] \in ENGLISH_VOCABULARY
           /\ tokens_lem[j] \notin STOP_WORDS_ENG)
    => tokens_again = tokens_lem

\* the returned tokens that a second pass keeps as they are
Stable(t) ==
    /\ t \in ENGLISH_VOCABULARY
    /\ t \notin STOP_WORDS_ENG
    /\ Len(t) > 1
    /\ lemmatize(t) = t

\* C5 as amended: when every returned token is in the vocabulary, is no
\* stop word, is longer than one character and is its own lemma,
\* tokenizing the joined result returns the same list
C5_IdempotentOnStableTokens ==
    (/\ pc = "renormalized"
     /\ \A j \in DOMAIN tokens_lem : Stable(tokens_lem[j]))
    => tokens_again = tokens_lem

\* a second pass over two stable tokens, one of them a lemma that differs
\* from the token it came from
C5_Witness ==
    /\ pc = "renormalized"
    /\ Len(tokens_lem) >= 2
    /\ \A j \in DOMAIN tokens_lem : Stable(tokens_lem[j])
    /\ tokens_lem # tokens
    /\ rejoined = Join(tokens_lem)

----------------------------------------------------------------------------
(* Properties of display_topics *)

\* the vocabulary the module-level pipeline was fitted with
FittedVocabulary == FeatureNames(Len(model[1]))

\* C6: with a model of k topics, the fitted vocabulary and
\* 1 <= number_of_top_words <= number of terms, the call does not fail and
\* prints k entries, a "Topic" line numbered 1..k each followed by a
\* "Words" line of exactly number_of_top_words terms
C6_ReportShape ==
    (/\ dpc # "idle"
     /\ vocab = FittedVocabulary
     /\ number_of_top_words >= 1
     /\ number_of_top_words <= Len(vocab))
    => /\ dpc # "error"
       /\ dpc = "done" =>
             /\ Len(out) = 2 * Len(model)
             /\ \A t \in 1..Len(model) :
                   /\ out[2 * t - 1].line = "Topic"
                   /\ out[2 * t - 1].topic = t
                   /\ out[2 * t].line = "Words"
                   /\ out[2 * t].topic = t
                   /\ Len(out[2 * t].words) = number_of_top_words

C6_Witness ==
    /\ dpc = "done"
    /\ vocab = FittedVocabulary
    /\ Len(model) = 2
    /\ number_of_top_words = 2
    /\ Len(vocab) = 3
    /\ Len(out) = 4

\* the column of components_ a listed word stands for
ColumnOf(word) == CHOOSE i \in DOMAIN vocab : vocab[i] = word

\* C7: the words stored for a topic are distinct vocabulary entries whose
\* weights in that topic's row do not increase along the list, and no
\* column left out of the list has a weight greater than a listed one
C7_TopWordsDescending ==
    dpc # "idle" =>
        \A t \in DOMAIN topic_words :
            LET ws  == topic_words[t]
                row == model[t]
            IN /\ \A j \in DOMAIN ws : \E i \in DOMAIN vocab : vocab[i] = ws[j]
               /\ \A j, l \in DOMAIN ws : j # l => ws[j] # ws[l]
               /\ \A j \in 1..(Len(ws) - 1) :
                     row[ColumnOf(ws[j])] >= row[ColumnOf(ws[j + 1])]
               /\ \A c \in DOMAIN row :
                     (\A j \in DOMAIN ws : ColumnOf(ws[j]) # c) =>
                         \A j \in DOMAIN ws : row[c] <= row[ColumnOf(ws[j])]

\* a finished report that lists two words of different weight and leaves
\* a third out
C7_Witness ==
    /\ dpc = "done"
    /\ \E t \in DOMAIN topic_words :
          /\ Len(topic_words[t]) = 2
          /\ Len(model[t]) = 3
          /\ model[t][ColumnOf(topic_words[t][1])] > model[t][ColumnOf(topic_words[t][2])]
          /\ out[2 * t].words = topic_words[t]

\* C8: a number_of_top_words that is not positive makes the call fail
\* before anything is printed
C8_NonPositiveCountFails ==
    (dpc # "idle" /\ number_of_top_words <= 0) =>
        /\ dpc # "done"
        /\ out = <<>>

\* C9: a call that ends in an error has printed nothing
C9_NoPartialReport ==
    dpc = "error" => out = <<>>

\* C10: the report is that of the pipeline passed as model_pipeline: one
\* entry per topic of model_pipeline, each listing words by descending
\* weight in that pipeline's row
C10_ReportOfPipelineArgument ==
    dpc = "done" =>
        /\ Len(out) = 2 * Len(model_pipeline)
        /\ \A t \in 1..Len(model_pipeline) :
              LET ws == out[2 * t].words
              IN \A j \in 1..(Len(ws) - 1) :
                    model_pipeline[t][ColumnOf(ws[j])]
                        >= model_pipeline[t][ColumnOf(ws[j + 1])]

====
